---- MODULE Spec2Model ----
(***************************************************************************)
(* Pseudo-labelers of torch_em.self_training (pseudo_labeling.py) and the  *)
(* source/target enumeration of the livecell experiment drivers.           *)
(*                                                                         *)
(* Numbers.  Python floats are modelled on a fixed grid of tenths: the     *)
(* integer n stands for n/10, so One (10) stands for the literal 1.0.      *)
(* Sums and differences are exact on the grid; comparisons against a       *)
(* product are made exactly by cross-multiplying with One; a product that  *)
(* is stored (confidence_threshold * factor) is rounded down to the grid.  *)
(* float('inf') and float('-inf') are the records Inf and NegInf; the       *)
(* metrics passed to step are finite.  A tensor is followed at one pixel.  *)
(***************************************************************************)
EXTENDS Integers, Sequences, FiniteSets, TLC

\* ---------------------------------------------------------------- bounds
MaxEpoch == 3
MaxMetric == 2
MaxPatience == 1
MaxSamples == 2
MaxBatch == 2
MaxLen == 2

\* ------------------------------------------------------ values and inputs
\* the float literal 1.0 on the grid of tenths
One == 10
\* Python's None, for confidence_threshold, epoch and target_ct
None == -1000

Fin(v) == [k |-> "fin", v |-> v]
Inf == [k |-> "inf", v |-> 0]
NegInf == [k |-> "ninf", v |-> 0]

Max(a, b) == IF a >= b THEN a ELSE b

\* metrics passed to step, in tenths
Metrics == (0 - MaxMetric)..MaxMetric
Modes == {"min", "max", "sum"}
ThresholdModes == {"rel", "abs", "lin"}
Factors == {0 - 5, 0, 1, 9, 10}
Patiences == (0 - 1)..MaxPatience
Thresholds == {0 - 5, 0, 8}
MinCts == {7}
Epss == {0, 2}
CtValues == {None, 5, 9}
\* activated prediction values of one pixel
Preds == {1, 5, 9}
\* activated values of one pixel in a sample drawn from the prior
SampleValues == {1, 9}

VARIABLES cls, raised, init_kwargs, confidence_threshold, threshold_from_both_sides,
          prior_samples, consensus_masking,
          mode, factor, patience, threshold, threshold_mode, min_ct, eps,
          best, num_bad_epochs, last_epoch,
          last, streak,
          driver, cell_types, CELL_TYPES, target_ct, pc, src_i, tgt_j,
          target_cell_list, calls

labelerVars == <<cls, raised, init_kwargs, confidence_threshold, threshold_from_both_sides,
                 prior_samples, consensus_masking,
                 mode, factor, patience, threshold, threshold_mode, min_ct, eps,
                 best, num_bad_epochs, last_epoch, last, streak>>
schedVars == <<mode, factor, patience, threshold, threshold_mode, min_ct, eps,
               best, num_bad_epochs, last_epoch>>
driverVars == <<driver, cell_types, CELL_TYPES, target_ct, pc, src_i, tgt_j,
                target_cell_list, calls>>
vars == <<labelerVars, driverVars>>

NoCall == [op |-> "none"]

\* torch's bool + bool is the logical or; a mask entry is 1 (on) or 0 (off)
BoolAdd(x, y) == x \/ y
ToNum(b) == IF b THEN 1 ELSE 0

\* ------------------------------------------------- DefaultPseudoLabeler
Default_compute_label_mask_both_sides(pseudo_labels, ct) ==
    LET upper_threshold == ct
        lower_threshold == One - ct
    IN  ToNum(BoolAdd(pseudo_labels >= upper_threshold, pseudo_labels <= lower_threshold))

Default_compute_label_mask_one_side(pseudo_labels, ct) ==
    ToNum(pseudo_labels >= ct)

\* the label_mask returned by __call__ for one activated prediction value
Default_call(pseudo_labels, ct, both) ==
    IF ct = None THEN None
    ELSE IF both THEN Default_compute_label_mask_both_sides(pseudo_labels, ct)
         ELSE Default_compute_label_mask_one_side(pseudo_labels, ct)

DefaultInit(ct, both) ==
    /\ cls = "none"
    /\ cls' = "Default"
    /\ init_kwargs' = [confidence_threshold |-> ct, threshold_from_both_sides |-> both]
    /\ confidence_threshold' = ct
    /\ threshold_from_both_sides' = both
    /\ last' = [op |-> "init"]
    /\ UNCHANGED <<raised, prior_samples, consensus_masking, schedVars, streak, driverVars>>

DefaultCall(p) ==
    /\ cls = "Default"
    /\ last' = [op |-> "call", pseudo_labels |-> p,
                label_mask |-> Default_call(p, confidence_threshold, threshold_from_both_sides)]
    /\ UNCHANGED <<cls, raised, init_kwargs, confidence_threshold, threshold_from_both_sides,
                   prior_samples, consensus_masking, schedVars, streak, driverVars>>

\* step(epoch): pass
DefaultStep ==
    /\ cls = "Default"
    /\ last' = [op |-> "step"]
    /\ UNCHANGED <<cls, raised, init_kwargs, confidence_threshold, threshold_from_both_sides,
                   prior_samples, consensus_masking, schedVars, streak, driverVars>>

\* --------------------------------------------- ProbabilisticPseudoLabeler
RECURSIVE SumTo(_, _)
\* f[1] + ... + f[n]
SumTo(f, n) == IF n = 0 THEN 0 ELSE f[n] + SumTo(f, n - 1)

\* torch.stack(samples, dim=0).sum(dim=0): per batch element, the sum of the
\* drawn samples; the pseudo label is this sum over prior_samples
StackSum(samples, n, batch) ==
    [b \in 1..batch |-> SumTo([s \in 1..n |-> samples[s][b]], n)]

\* The argument is the averaged pseudo label tensor, whose first dimension is the
\* batch: "for sample in pseudo_labels" runs over the batch elements.  Entry b is
\* sums[b] / n, compared exactly by multiplying the thresholds with n.
Probabilistic_compute_label_mask_both_sides(sums, n, ct) ==
    LET upper_threshold == ct
        lower_threshold == One - ct
    IN  [b \in DOMAIN sums |->
            ToNum(BoolAdd(sums[b] >= upper_threshold * n, sums[b] <= lower_threshold * n))]

Probabilistic_compute_label_mask_one_side(sums, n, ct) ==
    [b \in DOMAIN sums |-> ToNum(sums[b] >= ct * n)]

\* label_mask of __call__: a fraction num/den per pixel (no batch dimension is
\* left after sum(dim=0)), or None
Probabilistic_call(samples, batch, n, ct, both, consensus) ==
    LET sums == StackSum(samples, n, batch)
        mask == IF both THEN Probabilistic_compute_label_mask_both_sides(sums, n, ct)
                ELSE Probabilistic_compute_label_mask_one_side(sums, n, ct)
        summed == SumTo(mask, batch)
    IN  IF ct = None THEN [num |-> None, den |-> 1]
        ELSE IF consensus THEN [num |-> ToNum(summed = n), den |-> 1]
        ELSE [num |-> summed, den |-> n]

ProbabilisticInit(ct, both, n, consensus) ==
    /\ cls = "none"
    /\ cls' = "Probabilistic"
    /\ init_kwargs' = [confidence_threshold |-> ct, threshold_from_both_sides |-> both]
    /\ confidence_threshold' = ct
    /\ threshold_from_both_sides' = both
    /\ prior_samples' = n
    /\ consensus_masking' = consensus
    /\ last' = [op |-> "init"]
    /\ UNCHANGED <<raised, schedVars, streak, driverVars>>

ProbabilisticCall(batch, samples) ==
    /\ cls = "Probabilistic"
    /\ last' = [op |-> "call", batch |-> batch, samples |-> samples,
                pseudo_labels |-> [num |-> StackSum(samples, prior_samples, batch),
                                   den |-> prior_samples],
                label_mask |-> Probabilistic_call(samples, batch, prior_samples,
                                   confidence_threshold, threshold_from_both_sides,
                                   consensus_masking)]
    /\ UNCHANGED <<cls, raised, init_kwargs, confidence_threshold, threshold_from_both_sides,
                   prior_samples, consensus_masking, schedVars, streak, driverVars>>

\* step(epoch): pass
ProbabilisticStep ==
    /\ cls = "Probabilistic"
    /\ last' = [op |-> "step"]
    /\ UNCHANGED <<cls, raised, init_kwargs, confidence_threshold, threshold_from_both_sides,
                   prior_samples, consensus_masking, schedVars, streak, driverVars>>

\* ------------------------------------------------ ScheduledPseudoLabeler
\* mutant of Scheduled_compute_label_mask_both_sides: both tests must pass
Scheduled_both_sides_and(pseudo_labels, ct) ==
    ToNum(pseudo_labels >= ct /\ pseudo_labels <= One - ct)

Scheduled_compute_label_mask_both_sides(pseudo_labels, ct) ==
    LET upper_threshold == ct
        lower_threshold == One - ct
    IN  ToNum(BoolAdd(pseudo_labels >= upper_threshold, pseudo_labels <= lower_threshold))

Scheduled_compute_label_mask_one_side(pseudo_labels, ct) ==
    ToNum(pseudo_labels >= ct)

Scheduled_call(pseudo_labels, ct, both) ==
    IF ct = None THEN None
    ELSE IF both THEN Scheduled_compute_label_mask_both_sides(pseudo_labels, ct)
         ELSE Scheduled_compute_label_mask_one_side(pseudo_labels, ct)

\* mutant of InitError: factor = 1.0 is let through
InitError_strict(m, f, tm) ==
    IF m \notin {"min", "max"} THEN "ValueError"
    ELSE IF f > One THEN "ValueError"
    ELSE IF tm \notin {"rel", "abs"} THEN "ValueError"
    ELSE "none"

\* the exception __init__ raises for these arguments ("none": it returns)
InitError(m, f, tm) ==
    IF m \notin {"min", "max"} THEN "ValueError"
    ELSE IF f >= One THEN "ValueError"
    ELSE IF tm \notin {"rel", "abs"} THEN "ValueError"
    ELSE "none"

InitBest(m) == IF m = "min" THEN Inf ELSE NegInf

\* a < best * k / One, with IEEE's inf * 0 = nan (every comparison False)
LtProd(a, b, k) ==
    CASE b.k = "fin" -> a * One < b.v * k
      [] b.k = "inf" -> k > 0
      [] b.k = "ninf" -> k < 0

\* a > best * k / One
GtProd(a, b, k) ==
    CASE b.k = "fin" -> a * One > b.v * k
      [] b.k = "inf" -> k < 0
      [] b.k = "ninf" -> k > 0

\* a < best - t
LtSub(a, b, t) ==
    CASE b.k = "fin" -> a < b.v - t
      [] b.k = "inf" -> TRUE
      [] b.k = "ninf" -> FALSE

\* a > best + t
GtAdd(a, b, t) ==
    CASE b.k = "fin" -> a > b.v + t
      [] b.k = "inf" -> FALSE
      [] b.k = "ninf" -> TRUE

\* the branch of _is_better's if/elif chain that is taken (1..4, in source order)
is_better_branch(m, tm) ==
    IF m = "min" /\ tm = "rel" THEN 1
    ELSE IF m = "min" /\ tm = "abs" THEN 2
    ELSE IF m = "max" /\ tm = "rel" THEN 3
    ELSE 4

\* mutant of _is_better: the 'rel' and 'abs' comparisons are exchanged
is_better_swapped(a, b, m, tm, th) ==
    LET br == is_better_branch(m, tm)
    IN  CASE br = 1 -> LtSub(a, b, th)
          [] br = 2 -> LtProd(a, b, One - th)
          [] br = 3 -> GtAdd(a, b, th)
          [] br = 4 -> GtProd(a, b, th + One)

_is_better(a, b, m, tm, th) ==
    LET br == is_better_branch(m, tm)
    IN  CASE br = 1 -> LET rel_epsilon == One - th IN LtProd(a, b, rel_epsilon)
          [] br = 2 -> LtSub(a, b, th)
          [] br = 3 -> LET rel_epsilon == th + One IN GtProd(a, b, rel_epsilon)
          [] br = 4 -> GtAdd(a, b, th)

\* mutant of reduce_ct_new: the floor is not applied
reduce_ct_new_nofloor(ct, tm, f, floor) ==
    IF tm = "rel" THEN (ct * f) \div One ELSE ct - f

\* new_ct of _reduce_ct; the product is rounded down to the grid
reduce_ct_new(ct, tm, f, floor) ==
    IF tm = "rel" THEN Max((ct * f) \div One, floor)
    ELSE Max(ct - f, floor)

\* mutant of _reduce_ct: the new value is never stored
reduce_ct_never(ct, tm, f, floor, e) == ct

\* confidence_threshold after _reduce_ct
_reduce_ct(ct, tm, f, floor, e) ==
    LET old_ct == ct
        new_ct == reduce_ct_new(ct, tm, f, floor)
    IN  IF old_ct - new_ct > e THEN new_ct ELSE ct

ScheduledInit(ct, both, m, f, p, th, tm, floor, e) ==
    /\ cls = "none"
    /\ last' = [op |-> "init", mode |-> m, factor |-> f, threshold_mode |-> tm]
    /\ raised' = InitError(m, f, tm)
    /\ IF InitError(m, f, tm) # "none"
       THEN \* the constructor raised: no object comes to exist
            /\ cls' = "failed"
            /\ UNCHANGED <<init_kwargs, confidence_threshold, threshold_from_both_sides,
                           schedVars>>
       ELSE /\ cls' = "Scheduled"
            /\ init_kwargs' = [confidence_threshold |-> ct,
                               threshold_from_both_sides |-> both]
            /\ confidence_threshold' = ct
            /\ threshold_from_both_sides' = both
            /\ mode' = m
            /\ factor' = f
            /\ patience' = p
            /\ threshold' = th
            /\ threshold_mode' = tm
            /\ min_ct' = floor
            /\ eps' = e
            /\ best' = InitBest(m)
            /\ num_bad_epochs' = 0
            /\ last_epoch' = 0
    /\ UNCHANGED <<prior_samples, consensus_masking, streak, driverVars>>

ScheduledCall(p) ==
    /\ cls = "Scheduled"
    /\ last' = [op |-> "call", pseudo_labels |-> p,
                label_mask |-> Scheduled_call(p, confidence_threshold, threshold_from_both_sides)]
    /\ UNCHANGED <<cls, raised, init_kwargs, confidence_threshold, threshold_from_both_sides,
                   prior_samples, consensus_masking, schedVars, streak, driverVars>>

\* mutant of BadEpochs: the counter is not reset on an improvement
BadEpochs_noreset(better, n) == n + 1

\* num_bad_epochs after the if/else on _is_better
BadEpochs(better, n) == IF better THEN 0 ELSE n + 1

\* mutant of Exceeded: >= in place of >
Exceeded_early(n, p) == n >= p

\* whether step goes on to call _reduce_ct
Exceeded(n, p) == n > p

\* mutant of ReduceRaises: arithmetic on None goes through
ReduceRaises_never(ct) == FALSE

\* _reduce_ct raises TypeError: None * factor ('rel'), None - factor ('abs')
ReduceRaises(ct) == ct = None

\* step(metric, epoch): epoch is None or a later epoch number
ScheduledStep(metric, epoch) ==
    /\ cls = "Scheduled"
    /\ LET current == metric
           ep == IF epoch = None THEN last_epoch + 1 ELSE epoch
           better == _is_better(current, best, mode, threshold_mode, threshold)
           bad == BadEpochs(better, num_bad_epochs)
           reduce == Exceeded(bad, patience)
       IN  /\ ep <= MaxEpoch
           /\ last_epoch' = ep
           /\ best' = IF better THEN Fin(current) ELSE best
           /\ IF reduce /\ ReduceRaises(confidence_threshold)
              THEN \* the exception leaves step before "self.num_bad_epochs = 0"
                   /\ raised' = "TypeError"
                   /\ num_bad_epochs' = bad
                   /\ UNCHANGED confidence_threshold
              ELSE /\ raised' = "none"
                   /\ num_bad_epochs' = IF reduce THEN 0 ELSE bad
                   /\ confidence_threshold' =
                        IF reduce
                        THEN _reduce_ct(confidence_threshold, threshold_mode, factor, min_ct, eps)
                        ELSE confidence_threshold
           /\ last' = [op |-> "step", metric |-> current,
                       branch |-> is_better_branch(mode, threshold_mode),
                       better |-> better, reduce |-> reduce,
                       old_ct |-> confidence_threshold, old_bad |-> num_bad_epochs]
           \* history: consecutive non-improving steps since the last improvement
           \* or the last completed reduction
           /\ streak' = IF better \/ (reduce /\ confidence_threshold # None)
                        THEN 0 ELSE streak + 1
    /\ UNCHANGED <<cls, init_kwargs, threshold_from_both_sides, prior_samples,
                   consensus_masking,
                   mode, factor, patience, threshold, threshold_mode, min_ct, eps,
                   driverVars>>

\* ------------------------------------------------------ experiment drivers
CellTypes == {"A172", "BT474"}
SeqsUpTo(S, n) == UNION {[1..k -> S] : k \in 0..n}
NoList == [given |-> FALSE, list |-> <<>>]
Given(l) == [given |-> TRUE, list |-> l]

\* the list _train_source iterates over
TargetCellList(d, tct, all) ==
    IF d = "punet_adamatch"
    THEN (IF ~tct.given THEN all ELSE tct.list)
    ELSE all

\* mutant of IsSelfPair: the self pair is not skipped
IsSelfPair_never(target_cell_type, cell_type) == FALSE

\* "if target_cell_type == cell_type: continue"
IsSelfPair(target_cell_type, cell_type) == target_cell_type = cell_type

\* run_training: next iteration of "for cell_type in args.cell_types"
RunTrainingNext ==
    /\ pc = "run_training"
    /\ src_i <= Len(cell_types)
    /\ target_cell_list' = TargetCellList(driver, target_ct, CELL_TYPES)
    /\ tgt_j' = 1
    /\ pc' = "train_source"
    /\ UNCHANGED <<labelerVars, driver, cell_types, CELL_TYPES, target_ct, src_i, calls>>

RunTrainingDone ==
    /\ pc = "run_training"
    /\ src_i > Len(cell_types)
    /\ pc' = "done"
    /\ UNCHANGED <<labelerVars, driver, cell_types, CELL_TYPES, target_ct, src_i, tgt_j,
                   target_cell_list, calls>>

\* _train_source: one iteration of the loop over target_cell_list, self pair
TrainSourceSkip ==
    /\ pc = "train_source"
    /\ tgt_j <= Len(target_cell_list)
    /\ IsSelfPair(target_cell_list[tgt_j], cell_types[src_i])
    /\ tgt_j' = tgt_j + 1
    /\ UNCHANGED <<labelerVars, driver, cell_types, CELL_TYPES, target_ct, pc, src_i,
                   target_cell_list, calls>>

\* _train_source: one iteration that calls _train_source_target
TrainSourceTarget ==
    /\ pc = "train_source"
    /\ tgt_j <= Len(target_cell_list)
    /\ ~IsSelfPair(target_cell_list[tgt_j], cell_types[src_i])
    /\ calls' = Append(calls, <<cell_types[src_i], target_cell_list[tgt_j]>>)
    /\ tgt_j' = tgt_j + 1
    /\ UNCHANGED <<labelerVars, driver, cell_types, CELL_TYPES, target_ct, pc, src_i,
                   target_cell_list>>

\* _train_source returns
TrainSourceReturn ==
    /\ pc = "train_source"
    /\ tgt_j > Len(target_cell_list)
    /\ src_i' = src_i + 1
    /\ pc' = "run_training"
    /\ UNCHANGED <<labelerVars, driver, cell_types, CELL_TYPES, target_ct, tgt_j,
                   target_cell_list, calls>>

\* ---------------------------------------------------------- specifications
LabelerIdle ==
    /\ cls = "none"
    /\ raised = "none"
    /\ init_kwargs = [confidence_threshold |-> None, threshold_from_both_sides |-> FALSE]
    /\ confidence_threshold = None
    /\ threshold_from_both_sides = FALSE
    /\ prior_samples = None
    /\ consensus_masking = FALSE
    /\ mode = "none"
    /\ factor = None
    /\ patience = None
    /\ threshold = None
    /\ threshold_mode = "none"
    /\ min_ct = None
    /\ eps = None
    /\ best = Fin(0)
    /\ num_bad_epochs = None
    /\ last_epoch = None
    /\ last = NoCall
    /\ streak = 0

DriverIdle ==
    /\ driver = "none"
    /\ cell_types = <<>>
    /\ CELL_TYPES = <<>>
    /\ target_ct = NoList
    /\ pc = "idle"
    /\ src_i = 0
    /\ tgt_j = 0
    /\ target_cell_list = <<>>
    /\ calls = <<>>

Init == LabelerIdle /\ DriverIdle

\* the arguments accepted by the three constructors, drawn from the input sets
NewDefault ==
    /\ cls = "none"
    /\ \E ct \in CtValues, both \in BOOLEAN : DefaultInit(ct, both)

NewProbabilistic ==
    /\ cls = "none"
    /\ \E ct \in CtValues, both \in BOOLEAN, n \in 1..MaxSamples, c \in BOOLEAN :
          ProbabilisticInit(ct, both, n, c)

NewScheduled ==
    /\ cls = "none"
    /\ \E ct \in CtValues, both \in BOOLEAN, m \in Modes, f \in Factors, p \in Patiences,
          th \in Thresholds, tm \in ThresholdModes, floor \in MinCts, e \in Epss :
          ScheduledInit(ct, both, m, f, p, th, tm, floor, e)

Next ==
    \/ NewDefault
    \/ \E p \in Preds : DefaultCall(p)
    \/ DefaultStep
    \/ NewProbabilistic
    \/ /\ cls = "Probabilistic"
       /\ \E batch \in 1..MaxBatch :
             \E samples \in [1..prior_samples -> [1..batch -> SampleValues]] :
                ProbabilisticCall(batch, samples)
    \/ ProbabilisticStep
    \/ NewScheduled
    \/ \E p \in Preds : ScheduledCall(p)
    \/ \E metric \in Metrics, skip \in BOOLEAN :
          ScheduledStep(metric, IF skip THEN last_epoch + 2 ELSE None)

Spec == Init /\ [][Next]_vars

\* A scheduler whose step is called for ever, the caller passing the epoch
\* number: configurations with confidence_threshold >= min_ct, eps >= 0 and a
\* strictly decreasing reduction (0 < factor < 1).
LiveFactors == {1, 9}
LiveEpss == {0, 1}
LiveCts == {7, 9}
LiveEpochs == {1, 2}

NewScheduledLive ==
    /\ cls = "none"
    /\ \E ct \in LiveCts, m \in {"min", "max"}, f \in LiveFactors, p \in Patiences,
          th \in Thresholds, tm \in {"rel", "abs"}, floor \in MinCts, e \in LiveEpss :
          ScheduledInit(ct, TRUE, m, f, p, th, tm, floor, e)

LiveStep == \E metric \in Metrics, epoch \in LiveEpochs : ScheduledStep(metric, epoch)

LiveNext ==
    \/ NewScheduledLive
    \/ LiveStep

\* step keeps being called (once per validation epoch of the trainer)
LiveSpec == Init /\ [][LiveNext]_vars /\ WF_vars(LiveStep)

\* the run of one driver's training phase on some argument lists
TrainInit ==
    /\ LabelerIdle
    /\ driver \in {"punet_adamatch", "unet_fixmatch"}
    /\ cell_types \in SeqsUpTo(CellTypes, MaxLen)
    /\ CELL_TYPES \in SeqsUpTo(CellTypes, MaxLen)
    /\ target_ct \in {NoList} \cup
          (IF driver = "punet_adamatch"
           THEN {Given(l) : l \in SeqsUpTo(CellTypes, MaxLen)} ELSE {})
    /\ pc = "run_training"
    /\ src_i = 1
    /\ tgt_j = 0
    /\ target_cell_list = <<>>
    /\ calls = <<>>

TrainNext ==
    \/ RunTrainingNext
    \/ RunTrainingDone
    \/ TrainSourceSkip
    \/ TrainSourceTarget
    \/ TrainSourceReturn

TrainSpec == TrainInit /\ [][TrainNext]_vars

\* ------------------------------------------------------------- properties
IsStep == cls = "Scheduled" /\ last.op = "step"
\* a transition made by ScheduledPseudoLabeler.step (every step moves last_epoch)
StepTaken == cls = "Scheduled" /\ last_epoch' # last_epoch

\* x <= y on floats with infinities
Leq(x, y) ==
    \/ x.k = "ninf"
    \/ y.k = "inf"
    \/ (x.k = "fin" /\ y.k = "fin" /\ x.v <= y.v)

\* C1: a ScheduledPseudoLabeler constructed with confidence_threshold >= min_ct
\* keeps confidence_threshold >= min_ct after any sequence of step calls.
C1_CtNeverBelowFloor ==
    (/\ cls = "Scheduled"
     /\ init_kwargs.confidence_threshold # None
     /\ init_kwargs.confidence_threshold >= min_ct)
    => (confidence_threshold # None /\ confidence_threshold >= min_ct)

\* a step reduced a threshold that was above the floor down to the floor
C1_Witness ==
    /\ IsStep
    /\ last.reduce
    /\ init_kwargs.confidence_threshold # None
    /\ last.old_ct > min_ct
    /\ confidence_threshold = min_ct

\* C2: when the metric passed to step is an improvement on the stored best
\* (_is_better), step leaves num_bad_epochs = 0 and best = that metric.
C2_ResetOnImprovement ==
    (IsStep /\ last.better) => (num_bad_epochs = 0 /\ best = Fin(last.metric))

\* an improving step taken with a non-zero counter
C2_Witness ==
    /\ IsStep
    /\ last.better
    /\ last.old_bad > 0
    /\ num_bad_epochs = 0

\* C3: step changes a (numeric) confidence threshold only when the number of
\* consecutive non-improving steps since the last improvement or reduction,
\* this step included, exceeds patience; on such a step the threshold becomes
\* max(ct * factor, min_ct) ('rel') or max(ct - factor, min_ct) ('abs') if
\* that is a decrease of more than eps, and num_bad_epochs becomes 0 either way.
C3_ReduceOnlyAfterPatience ==
    [][StepTaken =>
        LET count == IF last'.better THEN 0 ELSE streak + 1
            ct == confidence_threshold
            decayed == IF threshold_mode = "rel"
                       THEN Max((ct * factor) \div One, min_ct)
                       ELSE Max(ct - factor, min_ct)
        IN  /\ (confidence_threshold' # ct => count > patience)
            /\ (count <= patience => num_bad_epochs' = count)
            /\ (count > patience /\ ct # None =>
                  /\ confidence_threshold' = (IF ct - decayed > eps THEN decayed ELSE ct)
                  /\ num_bad_epochs' = 0)]_vars

\* the threshold was lowered on the (patience+1)-th non-improving step, patience >= 1
C3_Witness ==
    /\ IsStep
    /\ patience >= 1
    /\ last.reduce
    /\ ~last.better
    /\ last.old_bad = patience
    /\ last.old_ct # None
    /\ confidence_threshold < last.old_ct
    /\ num_bad_epochs = 0

\* C4: in mode 'min' the stored best never increases from one step to the
\* next, and in mode 'max' it never decreases.
C4_BestMonotone ==
    [][(StepTaken /\ raised' = "none") =>
        /\ (mode = "min" => Leq(best', best))
        /\ (mode = "max" => Leq(best, best'))]_vars

\* C5: for a valid configuration the comparison made by _is_better is the one
\* of its (mode, threshold_mode) pair: min/rel a < best*(1-threshold), min/abs
\* a < best-threshold, max/rel a > best*(1+threshold), max/abs a > best+threshold.
C5_OneBranchPerConfig ==
    [][StepTaken =>
        LET a == last'.metric
            br == last'.branch
            res == last'.better
        IN  /\ (mode = "min" /\ threshold_mode = "rel" =>
                  br = 1 /\ res = LtProd(a, best, One - threshold))
            /\ (mode = "min" /\ threshold_mode = "abs" =>
                  br = 2 /\ res = LtSub(a, best, threshold))
            /\ (mode = "max" /\ threshold_mode = "rel" =>
                  br = 3 /\ res = GtProd(a, best, One + threshold))
            /\ (mode = "max" /\ threshold_mode = "abs" =>
                  br = 4 /\ res = GtAdd(a, best, threshold))]_vars

\* a max/rel step found an improvement over a finite best
C5_Witness ==
    /\ IsStep
    /\ mode = "max"
    /\ threshold_mode = "rel"
    /\ last.branch = 3
    /\ last.better
    /\ last_epoch >= 2

\* the one-sided or two-sided threshold test on one activated value
PassOne(v, ct, both) ==
    IF both THEN (v >= ct \/ v <= One - ct) ELSE v >= ct

IsProbCall == cls = "Probabilistic" /\ last.op = "call" /\ confidence_threshold # None

\* C6: without consensus masking the mask of ProbabilisticPseudoLabeler is, at
\* every batch element, the fraction of the prior_samples samples that pass the
\* threshold test, hence in [0, 1]; the pseudo label is the mean of the samples.
C6_SoftMaskIsSampleAverage ==
    (IsProbCall /\ ~consensus_masking) =>
        LET n == prior_samples
            m == last.label_mask
        IN  /\ m.num >= 0
            /\ m.num <= m.den
            /\ last.pseudo_labels.den = n
            /\ \A b \in 1..last.batch :
                 /\ last.pseudo_labels.num[b] = SumTo([s \in 1..n |-> last.samples[s][b]], n)
                 /\ m.num * n = m.den * Cardinality({s \in 1..n :
                        PassOne(last.samples[s][b], confidence_threshold,
                                threshold_from_both_sides)})

\* C7: with consensus masking the mask is binary and is 1 exactly where every
\* one of the prior_samples samples passes the threshold test.
C7_ConsensusIsFullAgreement ==
    (IsProbCall /\ consensus_masking) =>
        LET n == prior_samples
            m == last.label_mask
        IN  /\ m.den = 1
            /\ m.num \in {0, 1}
            /\ \A b \in 1..last.batch :
                 (m.num = 1) <=> (\A s \in 1..n :
                        PassOne(last.samples[s][b], confidence_threshold,
                                threshold_from_both_sides))

\* C8: in DefaultPseudoLabeler and ScheduledPseudoLabeler the mask at a value p
\* is on iff p >= t (one-sided), iff p >= t or p <= 1 - t (two-sided); the
\* two-sided mask contains the one-sided one; with t = None the mask is None.
C8_MaskPolicy ==
    (cls \in {"Default", "Scheduled"} /\ last.op = "call") =>
        LET p == last.pseudo_labels
            t == confidence_threshold
            m == last.label_mask
        IN  IF t = None THEN m = None
            ELSE /\ m \in {0, 1}
                 /\ (~threshold_from_both_sides => ((m = 1) <=> (p >= t)))
                 /\ (threshold_from_both_sides => ((m = 1) <=> (p >= t \/ p <= One - t)))
                 /\ (Default_call(p, t, FALSE) = 1 => Default_call(p, t, TRUE) = 1)
                 /\ (Scheduled_call(p, t, FALSE) = 1 => Scheduled_call(p, t, TRUE) = 1)

\* a two-sided scheduled mask is on at a low value, after the threshold was lowered
C8_Witness ==
    /\ cls = "Scheduled"
    /\ last.op = "call"
    /\ threshold_from_both_sides
    /\ confidence_threshold # None
    /\ confidence_threshold < init_kwargs.confidence_threshold
    /\ last.pseudo_labels < confidence_threshold
    /\ last.label_mask = 1

\* C9: ScheduledPseudoLabeler.__init__ raises ValueError iff mode is not
\* 'min'/'max', or factor >= 1.0, or threshold_mode is not 'rel'/'abs'; any
\* other configuration gives num_bad_epochs = 0, last_epoch = 0 and
\* best = +inf ('min') or -inf ('max').
C9_InitValidation ==
    /\ cls = "failed" =>
          /\ raised = "ValueError"
          /\ \/ last.mode \notin {"min", "max"}
             \/ last.factor >= One
             \/ last.threshold_mode \notin {"rel", "abs"}
    /\ (cls = "Scheduled" /\ last.op = "init") =>
          /\ raised = "none"
          /\ last.mode \in {"min", "max"}
          /\ last.factor < One
          /\ last.threshold_mode \in {"rel", "abs"}
          /\ mode = last.mode
          /\ num_bad_epochs = 0
          /\ last_epoch = 0
          /\ (mode = "min" => best = Inf)
          /\ (mode = "max" => best = NegInf)

\* accepted: negative factor, negative threshold, confidence_threshold None
C9_Witness ==
    /\ cls = "Scheduled"
    /\ last.op = "init"
    /\ factor < 0
    /\ threshold < 0
    /\ confidence_threshold = None
    /\ mode = "max"

RECURSIVE PairsFor(_, _)
\* <<s, t>> for the entries t of tgts other than s, in order
PairsFor(s, tgts) ==
    IF tgts = <<>> THEN <<>>
    ELSE (IF Head(tgts) # s THEN <<(<<s, Head(tgts)>>)>> ELSE <<>>) \o PairsFor(s, Tail(tgts))

RECURSIVE AllPairs(_, _)
AllPairs(srcs, tgts) ==
    IF srcs = <<>> THEN <<>>
    ELSE PairsFor(Head(srcs), tgts) \o AllPairs(Tail(srcs), tgts)

C12_NoneThresholdFails ==
    [][(StepTaken /\ confidence_threshold = None) =>
        LET better == last'.better
            count == IF better THEN 0 ELSE num_bad_epochs + 1
        IN  /\ confidence_threshold' = None
            /\ (raised' = "TypeError") <=> (count > patience)
            /\ (raised' # "TypeError") => raised' = "none"
            /\ num_bad_epochs' = count
            /\ best' = (IF better THEN Fin(last'.metric) ELSE best)
            /\ last_epoch' > last_epoch
            /\ ((raised = "TypeError" /\ ~better) => raised' = "TypeError")]_vars

\* a non-improving step failed again after an earlier failure left the counter
\* above patience
C12_Witness ==
    /\ IsStep
    /\ confidence_threshold = None
    /\ raised = "TypeError"
    /\ patience >= 0
    /\ ~last.better
    /\ last.old_bad > patience
    /\ num_bad_epochs = last.old_bad + 1

\* from some step on, every metric passed to step is non-improving
NonImprovingForEver == <>[](IsStep /\ ~last.better)

\* the value a reduction would give the threshold
Decayed(ct) ==
    IF threshold_mode = "rel" THEN Max((ct * factor) \div One, min_ct)
    ELSE Max(ct - factor, min_ct)

\* a further reduction would lower the threshold by at most eps
AtRest == cls = "Scheduled" /\ confidence_threshold - Decayed(confidence_threshold) <= eps

\* C11 as stated: if from some step on every metric is non-improving, the
\* confidence threshold eventually stays within eps of min_ct.
C11_ReachesFloor ==
    NonImprovingForEver =>
        <>[](cls = "Scheduled" /\ confidence_threshold - min_ct <= eps)

\* C11 amended: if from some step on every metric is non-improving, the
\* confidence threshold eventually stays at a value that a further reduction
\* would lower by at most eps; from such a value it never changes, and it never
\* increases from one step to the next.
C11_ReachesRest ==
    /\ NonImprovingForEver => <>[]AtRest
    /\ [][AtRest => confidence_threshold' = confidence_threshold]_vars
    /\ [][cls = "Scheduled" => confidence_threshold' <= confidence_threshold]_vars

\* the threshold was lowered in two reductions and rests on the floor
C11_Witness ==
    /\ IsStep
    /\ ~last.better
    /\ last.reduce
    /\ AtRest
    /\ confidence_threshold = min_ct
    /\ last.old_ct > confidence_threshold
    /\ last.old_ct < init_kwargs.confidence_threshold

====
